---- MODULE Spec2Model ----
(***************************************************************************)
(* OTTO control link: the mutex-guarded value (util::locked), the double   *)
(* buffer (util::double_buffered), and the TOOT MCU FIFO controller        *)
(* (frame dispatch, reader loop, outbound queue, factory).                 *)
(*                                                                         *)
(* Six specifications share the module:                                    *)
(*   SpecLocked   - threads calling locked<T>::apply                       *)
(*   SpecBuffer   - producers calling queue_message, threads calling       *)
(*                  swap(), callers of the LED operations                  *)
(*   FairSpecBuffer - the queue_message and swap() callers of SpecBuffer  *)
(*                  under weak fairness of their steps                    *)
(*   SpecAccess   - SpecBuffer's threads plus the callers of inner() and  *)
(*                  outer(), with or without a single owner of swap()     *)
(*   SpecDispatch - handle_message applied to one frame (pure function)    *)
(*   SpecReader   - make_or_dummy and the reader thread's loop             *)
(* Each leaves the variables of the others at their initial value.         *)
(***************************************************************************)
EXTENDS Integers, Sequences, FiniteSets, TLC

\* ------------------------------------------------------------------ bounds
NThreads == 3      \* threads calling locked::apply
MaxIter == 2       \* apply calls per thread
NProducers == 2    \* threads calling queue_message
NSwappers == 2     \* threads calling swap()
MaxAppends == 2    \* queue_message calls in one behaviour
MaxSwaps == 2      \* swap() calls in one behaviour
MaxReads == 2      \* read_line results in one behaviour

NoThread == 0

VARIABLES
  \* util::locked<int>
  contents,      \* locked::contents, the wrapped value
  mutex,         \* locked::mutex, the thread holding it or NoThread
  lpc,           \* position of each thread inside apply
  tmp,           \* the callback's local copy of the value
  completed,     \* number of apply calls that have returned
  \* util::double_buffered<std::vector<byte>> write_buffer_
  _store,        \* the two slots
  _inner_idx,    \* index of the inner slot
  _outer_lock,   \* the thread holding the lock or NoThread
  policy,        \* the AfterSwap template argument
  pc,            \* position of each producer / swapper
  ref,           \* the slot reference passed to a producer's callback
  msg,           \* the message a producer is appending
  pos,           \* how many of its bytes the producer has copied
  outerLog,      \* messages whose append completed since the last swap began
  snapshot,      \* outerLog at the moment the last swap took the lock
  queued,        \* every message whose queue_message call has returned
  sent,          \* bytes handed to the device
  lastCall,      \* the last controller operation that returned
  pre,           \* the inner and outer contents when the last swap took the lock
  delivered,     \* the inner slot as read at the end of each swap, concatenated
  discipline,    \* who may call swap() and outer(): "free" or "single_owner"
  iref,          \* the slot reference the owner got from inner()
  oref,          \* the slot reference a caller got from outer()
  nAppends, nSwaps,
  \* TOOT_MCU_FIFO_Controller
  controller,    \* what make_or_dummy returned
  escaped,       \* an exception left make_or_dummy
  should_run,    \* the reader thread's should-continue flag
  rpc,           \* position of the reader thread
  line,          \* the last result of fifo.read_line()
  events,        \* calls received by the key, MIDI and encoder sinks
  errlog,        \* LOGE entries
  send_midi_,    \* the MIDI-mode flag
  frames,        \* the frames passed to handle_message, in order
  stopReads,     \* read results handled since should_run became false
  nReads

lockedVars == <<contents, mutex, lpc, tmp, completed>>
bufferVars == <<_store, _inner_idx, _outer_lock, policy, pc, ref, msg, pos,
                outerLog, snapshot, queued, sent, lastCall, pre, delivered,
                discipline, iref, oref, nAppends, nSwaps>>
readerVars == <<controller, escaped, should_run, rpc, line, events, errlog,
                send_midi_, frames, stopReads, nReads>>
vars == <<lockedVars, bufferVars, readerVars>>

\* an operation of one component leaves the other components alone
LockedFrame == UNCHANGED <<bufferVars, readerVars>>

BufferFrame == UNCHANGED <<lockedVars, readerVars>>

ReaderFrame == UNCHANGED <<lockedVars, bufferVars>>

\* ------------------------------------------------------------ util::locked
LThreads == 1..NThreads

InitLocked ==
  /\ contents = 0
  /\ mutex = NoThread
  /\ lpc = [t \in LThreads |-> "idle"]
  /\ tmp = [t \in LThreads |-> 0]
  /\ completed = 0

\* apply without taking the mutex
ApplyLock_NoMutex(t) ==
  /\ lpc[t] = "idle"
  /\ completed + Cardinality({u \in LThreads : lpc[u] # "idle"}) < NThreads * MaxIter
  /\ lpc' = [lpc EXCEPT ![t] = "read"]
  /\ UNCHANGED <<contents, mutex, tmp, completed>>
  /\ LockedFrame

\* auto lock = std::unique_lock(mutex);
ApplyLock(t) ==
  /\ lpc[t] = "idle"
  /\ completed + Cardinality({u \in LThreads : lpc[u] # "idle"}) < NThreads * MaxIter
  /\ mutex = NoThread
  /\ mutex' = t
  /\ lpc' = [lpc EXCEPT ![t] = "read"]
  /\ UNCHANGED <<contents, tmp, completed>>
  /\ LockedFrame

\* the callback f(contents): read the value ...
ApplyRead(t) ==
  /\ lpc[t] = "read"
  /\ tmp' = [tmp EXCEPT ![t] = contents]
  /\ lpc' = [lpc EXCEPT ![t] = "write"]
  /\ UNCHANGED <<contents, mutex, completed>>
  /\ LockedFrame

\* ... and write it back incremented
ApplyWrite(t) ==
  /\ lpc[t] = "write"
  /\ contents' = tmp[t] + 1
  /\ lpc' = [lpc EXCEPT ![t] = "return"]
  /\ UNCHANGED <<mutex, tmp, completed>>
  /\ LockedFrame

\* return: the unique_lock's destructor releases the mutex
ApplyReturn(t) ==
  /\ lpc[t] = "return"
  /\ mutex' = IF mutex = t THEN NoThread ELSE mutex
  /\ lpc' = [lpc EXCEPT ![t] = "idle"]
  /\ completed' = completed + 1
  /\ UNCHANGED <<contents, tmp>>
  /\ LockedFrame

InCallback(t) == lpc[t] \in {"read", "write", "return"}

\* ---------------------------------------------------- util::double_buffered
Producers == 1..NProducers
Swappers == (NProducers + 1)..(NProducers + NSwappers)

\* the single thread that calls inner()
Owner == NProducers + NSwappers + 1

\* a thread that calls outer()
OuterUser == NProducers + NSwappers + 2

BufThreads == Producers \cup Swappers \cup {Owner, OuterUser}

clear_all_leds == 224
clear_led_group == 225
set_led_color == 236
key_down == 32
key_up == 33
blue_enc_step == 48
green_enc_step == 49
yellow_enc_step == 50
red_enc_step == 51

\* the encoded frames producers queue
Messages == {<<clear_all_leds>>, <<set_led_color, 1>>}

RECURSIVE Flatten(_)
Flatten(ms) == IF ms = <<>> THEN <<>> ELSE Head(ms) \o Flatten(Tail(ms))

OuterIdx == (_inner_idx + 1) % 2

\* everything but the initial contents of the slots, the policy and the
\* calling discipline
InitBufferState ==
  /\ _inner_idx = 0
  /\ _outer_lock = NoThread
  /\ pc = [t \in BufThreads |-> "idle"]
  /\ ref = [t \in Producers |-> 0]
  /\ msg = [t \in Producers |-> <<>>]
  /\ pos = [t \in Producers |-> 0]
  /\ outerLog = <<>>
  /\ snapshot = <<>>
  /\ queued = <<>>
  /\ sent = <<>>
  /\ lastCall = "none"
  /\ nAppends = 0
  /\ nSwaps = 0
  /\ pre = [idx |-> 0, inner |-> <<>>, outer |-> <<>>]
  /\ delivered = <<>>
  /\ iref = 0
  /\ oref = 0

\* write_buffer_: both slots default-constructed
InitBuffer ==
  /\ _store = [i \in 0..1 |-> <<>>]
  /\ discipline = "free"
  /\ InitBufferState

clear_inner(st, inner, outer) == [st EXCEPT ![inner] = <<>>]

\* clear_outer clearing its first argument
clear_outer_ClearsInner(st, inner, outer) == [st EXCEPT ![inner] = <<>>]

clear_outer(st, inner, outer) == [st EXCEPT ![outer] = <<>>]

AfterSwap(p, st, inner, outer) ==
  IF p = "clear_outer" THEN clear_outer(st, inner, outer)
                       ELSE clear_inner(st, inner, outer)

\* queue_message(message) is called and reaches outer_locked
queue_message(t, m) ==
  /\ pc[t] = "idle"
  /\ nAppends < MaxAppends
  /\ msg' = [msg EXCEPT ![t] = m]
  /\ pos' = [pos EXCEPT ![t] = 0]
  /\ pc' = [pc EXCEPT ![t] = "lock"]
  /\ nAppends' = nAppends + 1
  /\ UNCHANGED <<_store, _inner_idx, _outer_lock, policy, ref, outerLog, snapshot,
                 queued, sent, lastCall, nSwaps>>
  /\ UNCHANGED <<pre, delivered, discipline, iref, oref>>
  /\ BufferFrame

\* outer_locked entered without waiting for the lock
outer_locked_NoLock(t) ==
  /\ pc[t] = "lock"
  /\ ref' = [ref EXCEPT ![t] = OuterIdx]
  /\ pc' = [pc EXCEPT ![t] = "copy"]
  /\ UNCHANGED <<_store, _inner_idx, _outer_lock, policy, msg, pos, outerLog,
                 snapshot, queued, sent, lastCall, nAppends, nSwaps>>
  /\ UNCHANGED <<pre, delivered, discipline, iref, oref>>
  /\ BufferFrame

\* outer_locked: std::unique_lock lock(_outer_lock), then bind the outer slot
outer_locked(t) ==
  /\ pc[t] = "lock"
  /\ _outer_lock = NoThread
  /\ _outer_lock' = t
  /\ ref' = [ref EXCEPT ![t] = OuterIdx]
  /\ pc' = [pc EXCEPT ![t] = "copy"]
  /\ UNCHANGED <<_store, _inner_idx, policy, msg, pos, outerLog, snapshot, queued,
                 sent, lastCall, nAppends, nSwaps>>
  /\ UNCHANGED <<pre, delivered, discipline, iref, oref>>
  /\ BufferFrame

\* the callback: util::copy(message, std::back_inserter(b)), one byte a step
queue_message_copy(t) ==
  /\ pc[t] = "copy"
  /\ pos[t] < Len(msg[t])
  /\ _store' = [_store EXCEPT ![ref[t]] = Append(@, msg[t][pos[t] + 1])]
  /\ pos' = [pos EXCEPT ![t] = @ + 1]
  /\ UNCHANGED <<_inner_idx, _outer_lock, policy, pc, ref, msg, outerLog, snapshot,
                 queued, sent, lastCall, nAppends, nSwaps>>
  /\ UNCHANGED <<pre, delivered, discipline, iref, oref>>
  /\ BufferFrame

\* queue_message returning with the lock still held
queue_message_return_KeepsLock(t) ==
  /\ pc[t] = "copy"
  /\ pos[t] = Len(msg[t])
  /\ pc' = [pc EXCEPT ![t] = "idle"]
  /\ outerLog' = Append(outerLog, msg[t])
  /\ queued' = Append(queued, msg[t])
  /\ lastCall' = "queue_message"
  /\ UNCHANGED <<_store, _inner_idx, _outer_lock, policy, ref, msg, pos, snapshot,
                 sent, nAppends, nSwaps>>
  /\ UNCHANGED <<pre, delivered, discipline, iref, oref>>
  /\ BufferFrame

\* the callback returns, the lock is released, queue_message returns
queue_message_return(t) ==
  /\ pc[t] = "copy"
  /\ pos[t] = Len(msg[t])
  /\ _outer_lock' = IF _outer_lock = t THEN NoThread ELSE _outer_lock
  /\ pc' = [pc EXCEPT ![t] = "idle"]
  /\ outerLog' = Append(outerLog, msg[t])
  /\ queued' = Append(queued, msg[t])
  /\ lastCall' = "queue_message"
  /\ UNCHANGED <<_store, _inner_idx, policy, ref, msg, pos, snapshot, sent,
                 nAppends, nSwaps>>
  /\ UNCHANGED <<pre, delivered, discipline, iref, oref>>
  /\ BufferFrame

\* swap(): std::unique_lock lock(_outer_lock);
swap_lock(t) ==
  /\ pc[t] = "idle"
  /\ nSwaps < MaxSwaps
  /\ _outer_lock = NoThread
  /\ _outer_lock' = t
  /\ pc' = [pc EXCEPT ![t] = "flip"]
  /\ snapshot' = outerLog
  /\ outerLog' = <<>>
  /\ nSwaps' = nSwaps + 1
  /\ UNCHANGED <<_store, _inner_idx, policy, ref, msg, pos, queued, sent, lastCall,
                 nAppends>>
  /\ pre' = [idx |-> _inner_idx, inner |-> _store[_inner_idx],
             outer |-> _store[OuterIdx]]
  /\ UNCHANGED <<delivered, discipline, iref, oref>>
  /\ BufferFrame

\* swap() leaving the inner index as it was
swap_flip_NoFlip(t) ==
  /\ pc[t] = "flip"
  /\ pc' = [pc EXCEPT ![t] = "after"]
  /\ UNCHANGED <<_store, _inner_idx, _outer_lock, policy, ref, msg, pos, outerLog,
                 snapshot, queued, sent, lastCall, nAppends, nSwaps>>
  /\ UNCHANGED <<pre, delivered, discipline, iref, oref>>
  /\ BufferFrame

\* _inner_idx = (_inner_idx + 1) % 2;
swap_flip(t) ==
  /\ pc[t] = "flip"
  /\ _inner_idx' = (_inner_idx + 1) % 2
  /\ pc' = [pc EXCEPT ![t] = "after"]
  /\ UNCHANGED <<_store, _outer_lock, policy, ref, msg, pos, outerLog, snapshot,
                 queued, sent, lastCall, nAppends, nSwaps>>
  /\ UNCHANGED <<pre, delivered, discipline, iref, oref>>
  /\ BufferFrame

\* AfterSwap{}(_store[_inner_idx % 2], _store[(_inner_idx + 1) % 2]);
swap_after(t) ==
  /\ pc[t] = "after"
  /\ _store' = AfterSwap(policy, _store, _inner_idx % 2, (_inner_idx + 1) % 2)
  /\ pc' = [pc EXCEPT ![t] = "return"]
  /\ UNCHANGED <<_inner_idx, _outer_lock, policy, ref, msg, pos, outerLog, snapshot,
                 queued, sent, lastCall, nAppends, nSwaps>>
  /\ UNCHANGED <<pre, delivered, discipline, iref, oref>>
  /\ BufferFrame

\* swap() returns and releases the lock
swap_return(t) ==
  /\ pc[t] = "return"
  /\ _outer_lock' = IF _outer_lock = t THEN NoThread ELSE _outer_lock
  /\ pc' = [pc EXCEPT ![t] = "idle"]
  /\ lastCall' = "swap"
  /\ UNCHANGED <<_store, _inner_idx, policy, ref, msg, pos, outerLog, snapshot,
                 queued, sent, nAppends, nSwaps>>
  /\ delivered' = delivered \o _store[_inner_idx]
  /\ UNCHANGED <<pre, discipline, iref, oref>>
  /\ BufferFrame

\* swap() called by a thread other than the owner of the inner slot
free_swap_lock(t) ==
  /\ discipline = "free"
  /\ swap_lock(t)

\* inner() returning the outer slot
inner_call_ReturnsOuter ==
  /\ pc[Owner] = "idle"
  /\ iref' = (_inner_idx + 1) % 2
  /\ pc' = [pc EXCEPT ![Owner] = "access"]
  /\ UNCHANGED <<_store, _inner_idx, _outer_lock, policy, ref, msg, pos, outerLog,
                 snapshot, queued, sent, lastCall, nAppends, nSwaps>>
  /\ UNCHANGED <<pre, delivered, discipline, oref>>
  /\ BufferFrame

\* inner(): return _store[_inner_idx], no lock; the owner starts using the
\* reference
inner_call ==
  /\ pc[Owner] = "idle"
  /\ iref' = _inner_idx
  /\ pc' = [pc EXCEPT ![Owner] = "access"]
  /\ UNCHANGED <<_store, _inner_idx, _outer_lock, policy, ref, msg, pos, outerLog,
                 snapshot, queued, sent, lastCall, nAppends, nSwaps>>
  /\ UNCHANGED <<pre, delivered, discipline, oref>>
  /\ BufferFrame

\* the owner stops using the reference it got from inner()
inner_done ==
  /\ pc[Owner] = "access"
  /\ pc' = [pc EXCEPT ![Owner] = "idle"]
  /\ UNCHANGED <<_store, _inner_idx, _outer_lock, policy, ref, msg, pos, outerLog,
                 snapshot, queued, sent, lastCall, nAppends, nSwaps>>
  /\ UNCHANGED <<pre, delivered, discipline, iref, oref>>
  /\ BufferFrame

\* outer(): std::unique_lock lock(_outer_lock); return _store[(_inner_idx+1)%2];
\* the lock is destroyed on return, the caller keeps the reference
outer_call ==
  /\ discipline = "free"
  /\ pc[OuterUser] = "idle"
  /\ _outer_lock = NoThread
  /\ oref' = (_inner_idx + 1) % 2
  /\ pc' = [pc EXCEPT ![OuterUser] = "access"]
  /\ UNCHANGED <<_store, _inner_idx, _outer_lock, policy, ref, msg, pos, outerLog,
                 snapshot, queued, sent, lastCall, nAppends, nSwaps>>
  /\ UNCHANGED <<pre, delivered, discipline, iref>>
  /\ BufferFrame

\* the caller of outer() stops using the reference
outer_done ==
  /\ pc[OuterUser] = "access"
  /\ pc' = [pc EXCEPT ![OuterUser] = "idle"]
  /\ UNCHANGED <<_store, _inner_idx, _outer_lock, policy, ref, msg, pos, outerLog,
                 snapshot, queued, sent, lastCall, nAppends, nSwaps>>
  /\ UNCHANGED <<pre, delivered, discipline, iref, oref>>
  /\ BufferFrame

\* set_color(led, color): empty body ("Not Implemented Yet")
set_color ==
  /\ lastCall' = "set_color"
  /\ UNCHANGED <<_store, _inner_idx, _outer_lock, policy, pc, ref, msg, pos,
                 outerLog, snapshot, queued, sent, nAppends, nSwaps>>
  /\ UNCHANGED <<pre, delivered, discipline, iref, oref>>
  /\ BufferFrame

\* flush_leds(): empty body ("Not Implemented Yet")
flush_leds ==
  /\ lastCall' = "flush_leds"
  /\ UNCHANGED <<_store, _inner_idx, _outer_lock, policy, pc, ref, msg, pos,
                 outerLog, snapshot, queued, sent, nAppends, nSwaps>>
  /\ UNCHANGED <<pre, delivered, discipline, iref, oref>>
  /\ BufferFrame

\* clear_leds(): empty body ("Not Implemented Yet")
clear_leds ==
  /\ lastCall' = "clear_leds"
  /\ UNCHANGED <<_store, _inner_idx, _outer_lock, policy, pc, ref, msg, pos,
                 outerLog, snapshot, queued, sent, nAppends, nSwaps>>
  /\ UNCHANGED <<pre, delivered, discipline, iref, oref>>
  /\ BufferFrame

\* ------------------------------------------- TOOT_MCU_FIFO_Controller
Byte == 0..255

\* enum Key: the enumerators the sources name, in the order of the switch of
\* insert_key_or_midi, then the two keys main() uses.  The numeric values
\* are declared in board/controller.hpp; the dispatch depends only on which
\* enumerator a byte denotes.
KeyNames ==
  <<"S0", "S1", "C0", "S2", "C1", "S3", "S4", "C2", "S5", "C3", "S6", "C4", "S7",
    "S8", "C5", "S9", "C6", "S10", "S11", "C7", "S12", "C8", "S13", "C9", "S14",
    "S15", "shift", "settings">>

\* Key::_from_integral_unchecked(b): bytes without an enumerator stay unnamed
Key_from_integral(b) ==
  IF b + 1 \in DOMAIN KeyNames THEN KeyNames[b + 1] ELSE "unnamed"

Event(sink, key, val) == [sink |-> sink, key |-> key, val |-> val]

Result(evs, errs, fault) == [events |-> evs, errors |-> errs, fault |-> fault]

\* a failed OTTO_ASSERT / assert / span::at: the exception or abort leaves
\* the noexcept thread function, std::terminate
Fault == Result(<<>>, <<>>, TRUE)

\* the switch of insert_key_or_midi with two keys on one note
KeyToNote_Duplicate ==
  [S0 |-> 47, S1 |-> 48, C0 |-> 49, S2 |-> 50, C1 |-> 51, S3 |-> 52, S4 |-> 53,
   C2 |-> 54, S5 |-> 55, C3 |-> 56, S6 |-> 57, C4 |-> 58, S7 |-> 59, S8 |-> 60,
   C5 |-> 61, S9 |-> 62, C6 |-> 63, S10 |-> 64, S11 |-> 65, C7 |-> 66, S12 |-> 67,
   C8 |-> 68, S13 |-> 69, C9 |-> 70, S14 |-> 71, S15 |-> 71]

\* the cases of the switch of insert_key_or_midi
KeyToNote ==
  [S0 |-> 47, S1 |-> 48, C0 |-> 49, S2 |-> 50, C1 |-> 51, S3 |-> 52, S4 |-> 53,
   C2 |-> 54, S5 |-> 55, C3 |-> 56, S6 |-> 57, C4 |-> 58, S7 |-> 59, S8 |-> 60,
   C5 |-> 61, S9 |-> 62, C6 |-> 63, S10 |-> 64, S11 |-> 65, C7 |-> 66, S12 |-> 67,
   C8 |-> 68, S13 |-> 69, C9 |-> 70, S14 |-> 71, S15 |-> 72]

insert_key_event(cmd, key) ==
  IF cmd = key_down THEN <<Event("keypress", key, 0)>>
  ELSE IF cmd = key_up THEN <<Event("keyrelease", key, 0)>>
  ELSE <<>>

\* the lambda send_midi of insert_key_or_midi
send_midi(cmd, note) ==
  IF cmd = key_down THEN <<Event("note_on", "", note)>>
  ELSE IF cmd = key_up THEN <<Event("note_off", "", note)>>
  ELSE <<>>

\* insert_key_or_midi without the early return of the non-MIDI branch
insert_key_or_midi_NoReturn(cmd, args, do_send_midi) ==
  IF Len(args) = 0 THEN Fault
  ELSE LET key == Key_from_integral(args[1])
           internal == IF ~do_send_midi THEN insert_key_event(cmd, key) ELSE <<>>
       IN  IF key \in DOMAIN KeyToNote
             THEN Result(internal \o send_midi(cmd, KeyToNote[key]), <<>>, FALSE)
             ELSE Result(internal \o insert_key_event(cmd, key), <<>>, FALSE)

insert_key_or_midi(cmd, args, do_send_midi) ==
  IF Len(args) = 0 THEN Fault
  ELSE LET key == Key_from_integral(args[1])
       IN  IF ~do_send_midi THEN Result(insert_key_event(cmd, key), <<>>, FALSE)
           ELSE IF key \in DOMAIN KeyToNote
             THEN Result(send_midi(cmd, KeyToNote[key]), <<>>, FALSE)
             ELSE Result(insert_key_event(cmd, key), <<>>, FALSE)

\* the int result of the conditional narrowed to int8_t
narrow_int8(v) == ((v + 128) % 256) - 128

to_int8(x) == narrow_int8(IF x >= 128 THEN x - 256 ELSE x)

\* the encoder event built from the raw byte, without to_int8
encoder_Unsigned(channel, args) ==
  IF Len(args) = 0 THEN Fault
  ELSE Result(<<Event("encoder", channel, args[1])>>, <<>>, FALSE)

\* encoder({channel, to_int8(bytes.at(0))})
encoder(channel, args) ==
  IF Len(args) = 0 THEN Fault
  ELSE Result(<<Event("encoder", channel, to_int8(args[1]))>>, <<>>, FALSE)

\* the default branch without its LOGE
unparsable_Silent == Result(<<>>, <<>>, FALSE)

\* default: LOGE("Unparsable message")
unparsable == Result(<<>>, <<"Unparsable message">>, FALSE)

handle_message(bytes, midi) ==
  IF Len(bytes) = 0 THEN Fault
  ELSE LET command == bytes[1]
           args == SubSeq(bytes, 2, Len(bytes))
       IN  CASE command \in {key_up, key_down} -> insert_key_or_midi(command, args, midi)
             [] command = blue_enc_step -> encoder("blue", args)
             [] command = green_enc_step -> encoder("green", args)
             [] command = yellow_enc_step -> encoder("yellow", args)
             [] command = red_enc_step -> encoder("red", args)
             [] OTHER -> unparsable

\* map_error logging whatever the error code
map_error_LogAll(error) == <<"Error reading FIFO data">>

\* the map_error callback of the reader loop
map_error(error) ==
  IF error # "empty_buffer" THEN <<"Error reading FIFO data">> ELSE <<>>

\* what TMFC's constructor can do: succeed, throw a std::exception, throw
\* something else
CtorOutcomes == {"ok", "std_exception", "other_exception"}

make_or_dummy(outcome) ==
  /\ controller = "none"
  /\ ~escaped
  /\ IF outcome = "ok"
       THEN /\ controller' = "real"
            /\ rpc' = "while"
            /\ UNCHANGED <<escaped, errlog>>
       ELSE IF outcome = "std_exception"
         THEN /\ controller' = "dummy"
              /\ errlog' = Append(errlog, "Couldn't set up FIFO controller")
              /\ UNCHANGED <<escaped, rpc>>
         ELSE /\ escaped' = TRUE
              /\ UNCHANGED <<controller, errlog, rpc>>
  /\ UNCHANGED <<should_run, line, events, send_midi_, frames, stopReads, nReads>>
  /\ ReaderFrame

\* while (should_run())
reader_while ==
  /\ rpc = "while"
  /\ rpc' = IF should_run THEN "read_line" ELSE "exited"
  /\ UNCHANGED <<controller, escaped, should_run, line, events, errlog, send_midi_,
                 frames, stopReads, nReads>>
  /\ ReaderFrame

\* the events of a frame put in front of the earlier ones
read_line_value_Prepend(bytes) ==
  /\ rpc = "read_line"
  /\ nReads < MaxReads
  /\ LET r == handle_message(bytes, send_midi_)
     IN  /\ events' = r.events \o events
         /\ errlog' = errlog \o r.errors
         /\ rpc' = IF r.fault THEN "terminated" ELSE "while"
  /\ line' = [kind |-> "frame", bytes |-> bytes]
  /\ frames' = Append(frames, bytes)
  /\ stopReads' = IF should_run THEN stopReads ELSE stopReads + 1
  /\ nReads' = nReads + 1
  /\ UNCHANGED <<controller, escaped, should_run, send_midi_>>
  /\ ReaderFrame

\* fifo.read_line() yields bytes: .map(handle_message)
read_line_value(bytes) ==
  /\ rpc = "read_line"
  /\ nReads < MaxReads
  /\ LET r == handle_message(bytes, send_midi_)
     IN  /\ events' = events \o r.events
         /\ errlog' = errlog \o r.errors
         /\ rpc' = IF r.fault THEN "terminated" ELSE "while"
  /\ line' = [kind |-> "frame", bytes |-> bytes]
  /\ frames' = Append(frames, bytes)
  /\ stopReads' = IF should_run THEN stopReads ELSE stopReads + 1
  /\ nReads' = nReads + 1
  /\ UNCHANGED <<controller, escaped, should_run, send_midi_>>
  /\ ReaderFrame

\* fifo.read_line() yields an error: .map_error(...)
read_line_error(error) ==
  /\ rpc = "read_line"
  /\ nReads < MaxReads
  /\ errlog' = errlog \o map_error(error)
  /\ rpc' = "while"
  /\ line' = [kind |-> error, bytes |-> <<>>]
  /\ stopReads' = IF should_run THEN stopReads ELSE stopReads + 1
  /\ nReads' = nReads + 1
  /\ UNCHANGED <<controller, escaped, should_run, events, send_midi_, frames>>
  /\ ReaderFrame

\* the owner of the thread asks it to stop
request_stop ==
  /\ controller = "real"
  /\ should_run
  /\ should_run' = FALSE
  /\ UNCHANGED <<controller, escaped, rpc, line, events, errlog, send_midi_, frames,
                 stopReads, nReads>>
  /\ ReaderFrame

\* handle_message applied to the frame drawn by InitDispatch
dispatch ==
  /\ rpc = "dispatch"
  /\ LET r == handle_message(line.bytes, send_midi_)
     IN  /\ events' = r.events
         /\ errlog' = r.errors
         /\ rpc' = IF r.fault THEN "terminated" ELSE "dispatched"
  /\ UNCHANGED <<controller, escaped, should_run, line, send_midi_, frames,
                 stopReads, nReads>>
  /\ ReaderFrame

\* results the inbound source delivers to the reader loop
ReaderFrames ==
  {<<>>, <<key_down>>, <<key_down, 0>>, <<key_up, 0>>, <<key_down, 26>>,
   <<blue_enc_step>>, <<blue_enc_step, 255>>, <<red_enc_step, 1>>,
   <<clear_all_leds>>, <<set_led_color, 1, 2>>, <<153>>}

ErrorCodes == {"empty_buffer", "other"}

\* every frame of one tag byte and at most one argument byte, and the frames
\* with a further byte
DispatchFrames ==
  {<<t>> : t \in Byte} \cup {<<t, b>> : t \in Byte, b \in Byte}
    \cup {<<t, 1, 2>> : t \in Byte}

\* --------------------------------------------------------- specifications
InitReaderIdle ==
  /\ controller = "none"
  /\ escaped = FALSE
  /\ should_run = TRUE
  /\ rpc = "not_started"
  /\ line = [kind |-> "none", bytes |-> <<>>]
  /\ events = <<>>
  /\ errlog = <<>>
  /\ send_midi_ = FALSE
  /\ frames = <<>>
  /\ stopReads = 0
  /\ nReads = 0

InitSpecLocked ==
  InitLocked /\ InitBuffer /\ policy = "clear_outer" /\ InitReaderIdle

NextLocked ==
  \/ \E t \in LThreads : ApplyLock(t)
  \/ \E t \in LThreads : ApplyRead(t)
  \/ \E t \in LThreads : ApplyWrite(t)
  \/ \E t \in LThreads : ApplyReturn(t)

SpecLocked == InitSpecLocked /\ [][NextLocked]_vars

InitSpecBuffer ==
  /\ InitLocked /\ InitBuffer /\ policy \in {"clear_outer", "clear_inner"}
  /\ InitReaderIdle

NextBuffer ==
  \/ \E t \in Producers, m \in Messages : queue_message(t, m)
  \/ \E t \in Producers : outer_locked(t)
  \/ \E t \in Producers : queue_message_copy(t)
  \/ \E t \in Producers : queue_message_return(t)
  \/ \E t \in Swappers : swap_lock(t)
  \/ \E t \in Swappers : swap_flip(t)
  \/ \E t \in Swappers : swap_after(t)
  \/ \E t \in Swappers : swap_return(t)
  \/ set_color
  \/ flush_leds
  \/ clear_leds

SpecBuffer == InitSpecBuffer /\ [][NextBuffer]_vars

\* a thread that can take its next step inside outer_locked or swap
\* eventually takes it; nobody is obliged to start a call
FairnessBuffer ==
  /\ \A t \in Producers :
        /\ WF_vars(outer_locked(t))
        /\ WF_vars(queue_message_copy(t))
        /\ WF_vars(queue_message_return(t))
  /\ \A t \in Swappers :
        /\ WF_vars(swap_flip(t))
        /\ WF_vars(swap_after(t))
        /\ WF_vars(swap_return(t))

\* the callers of queue_message and swap() alone
NextQueue ==
  \/ \E t \in Producers, m \in Messages : queue_message(t, m)
  \/ \E t \in Producers : outer_locked(t)
  \/ \E t \in Producers : queue_message_copy(t)
  \/ \E t \in Producers : queue_message_return(t)
  \/ \E t \in Swappers : swap_lock(t)
  \/ \E t \in Swappers : swap_flip(t)
  \/ \E t \in Swappers : swap_after(t)
  \/ \E t \in Swappers : swap_return(t)

FairSpecBuffer == InitSpecBuffer /\ [][NextQueue]_vars /\ FairnessBuffer

\* a double buffer constructed with supplied initial contents, used by
\* producers, an owner of the inner slot, a caller of outer() and, unless the
\* owner is the only caller of swap(), other callers of swap()
InitAccess ==
  /\ _store = [i \in 0..1 |-> IF i = 0 THEN <<clear_led_group>> ELSE <<>>]
  /\ discipline \in {"free", "single_owner"}
  /\ InitBufferState

InitSpecAccess ==
  /\ InitLocked /\ InitAccess /\ policy \in {"clear_outer", "clear_inner"}
  /\ InitReaderIdle

NextAccess ==
  \/ \E t \in Producers, m \in Messages : queue_message(t, m)
  \/ \E t \in Producers : outer_locked(t)
  \/ \E t \in Producers : queue_message_copy(t)
  \/ \E t \in Producers : queue_message_return(t)
  \/ \E t \in Swappers : free_swap_lock(t)
  \/ swap_lock(Owner)
  \/ \E t \in Swappers \cup {Owner} : swap_flip(t)
  \/ \E t \in Swappers \cup {Owner} : swap_after(t)
  \/ \E t \in Swappers \cup {Owner} : swap_return(t)
  \/ inner_call
  \/ inner_done
  \/ outer_call
  \/ outer_done

SpecAccess == InitSpecAccess /\ [][NextAccess]_vars

InitReader ==
  /\ controller = "none"
  /\ escaped = FALSE
  /\ should_run = TRUE
  /\ rpc = "not_started"
  /\ line = [kind |-> "none", bytes |-> <<>>]
  /\ events = <<>>
  /\ errlog = <<>>
  /\ send_midi_ \in BOOLEAN
  /\ frames = <<>>
  /\ stopReads = 0
  /\ nReads = 0

InitSpecReader ==
  InitLocked /\ InitBuffer /\ policy = "clear_outer" /\ InitReader

NextReader ==
  \/ \E outcome \in CtorOutcomes : make_or_dummy(outcome)
  \/ reader_while
  \/ \E bytes \in ReaderFrames : read_line_value(bytes)
  \/ \E error \in ErrorCodes : read_line_error(error)
  \/ request_stop

SpecReader == InitSpecReader /\ [][NextReader]_vars

InitDispatch ==
  /\ controller = "real"
  /\ escaped = FALSE
  /\ should_run = TRUE
  /\ rpc = "dispatch"
  /\ line \in {[kind |-> "frame", bytes |-> f] : f \in DispatchFrames}
  /\ events = <<>>
  /\ errlog = <<>>
  /\ send_midi_ \in BOOLEAN
  /\ frames = <<>>
  /\ stopReads = 0
  /\ nReads = 0

InitSpecDispatch ==
  InitLocked /\ InitBuffer /\ policy = "clear_outer" /\ InitDispatch

NextDispatch == dispatch

SpecDispatch == InitSpecDispatch /\ [][NextDispatch]_vars

\* ------------------------------------------------------------------ claims

\* C1: with the clear_outer policy, when a swap() has flipped and cleaned up,
\* the inner slot holds exactly the messages whose append completed before
\* that swap took the lock, in order, and the outer slot is empty.
C1_NoLostUpdate ==
  \A s \in Swappers :
    (policy = "clear_outer" /\ pc[s] = "return") =>
      /\ _store[_inner_idx] = Flatten(snapshot)
      /\ _store[OuterIdx] = <<>>

C1_Witness ==
  \E s \in Swappers :
    /\ policy = "clear_outer"
    /\ pc[s] = "return"
    /\ Len(snapshot) >= 2
    /\ _store[_inner_idx] = Flatten(snapshot)

\* C2: at most one thread is inside the callback of locked::apply at any
\* time, and the wrapped counter equals the number of increments written.
C2_MutualExclusion ==
  /\ Cardinality({t \in LThreads : InCallback(t)}) <= 1
  /\ contents = completed + Cardinality({t \in LThreads : lpc[t] = "return"})

C2_Witness ==
  /\ completed = NThreads * MaxIter
  /\ contents = NThreads * MaxIter

FrameTag == line.bytes[1]

FrameArg == line.bytes[2]

IsKeyFrame ==
  /\ line.kind = "frame"
  /\ Len(line.bytes) >= 2
  /\ FrameTag \in {key_down, key_up}

\* C3: a key_down / key_up frame with a key identifier produces exactly one
\* event: the internal press / release when MIDI mode is off or the key has
\* no note, otherwise the note-on / note-off with the key's note.
C3_ExactlyOneEvent ==
  (rpc # "dispatch" /\ IsKeyFrame) =>
    /\ rpc = "dispatched"
    /\ LET key == Key_from_integral(FrameArg)
       IN  IF ~send_midi_ \/ key \notin DOMAIN KeyToNote
             THEN events = <<Event(IF FrameTag = key_down THEN "keypress"
                                                         ELSE "keyrelease", key, 0)>>
             ELSE events = <<Event(IF FrameTag = key_down THEN "note_on"
                                                         ELSE "note_off", "",
                                   KeyToNote[key])>>

C3_Witness ==
  /\ rpc = "dispatched"
  /\ IsKeyFrame
  /\ send_midi_
  /\ FrameTag = key_up
  /\ events = <<Event("note_off", "", 47)>>

\* C4: the key-to-note table has 26 entries, is injective, covers the notes
\* 47..72 with S0 on 47 and S15 on 72, and a key frame whose key is not in
\* the table produces the internal event whatever the MIDI-mode flag is.
C4_NoteTable ==
  /\ Cardinality(DOMAIN KeyToNote) = 26
  /\ \A j, k \in DOMAIN KeyToNote : KeyToNote[j] = KeyToNote[k] => j = k
  /\ {KeyToNote[k] : k \in DOMAIN KeyToNote} = 47..72
  /\ KeyToNote["S0"] = 47
  /\ KeyToNote["S15"] = 72
  /\ (rpc # "dispatch" /\ IsKeyFrame
        /\ Key_from_integral(FrameArg) \notin DOMAIN KeyToNote) =>
       /\ Len(events) = 1
       /\ events[1].sink = IF FrameTag = key_down THEN "keypress" ELSE "keyrelease"
       /\ events[1].key = Key_from_integral(FrameArg)

C4_Witness ==
  /\ rpc = "dispatched"
  /\ IsKeyFrame
  /\ send_midi_
  /\ Key_from_integral(FrameArg) = "shift"
  /\ events = <<Event("keypress", "shift", 0)>>

IsEncoderFrame ==
  /\ line.kind = "frame"
  /\ Len(line.bytes) >= 2
  /\ FrameTag \in {blue_enc_step, green_enc_step, yellow_enc_step, red_enc_step}

ChannelOfTag(tag) ==
  CASE tag = 48 -> "blue" [] tag = 49 -> "green" [] tag = 50 -> "yellow"
    [] tag = 51 -> "red"

\* C5: an encoder-step frame with argument byte b produces exactly one
\* encoder event on the channel of its tag with delta b (b <= 127) or
\* b - 256 (b >= 128), and no key or MIDI event and no error.
C5_EncoderDelta ==
  (rpc # "dispatch" /\ IsEncoderFrame) =>
    /\ rpc = "dispatched"
    /\ events = <<Event("encoder", ChannelOfTag(FrameTag),
                        IF FrameArg <= 127 THEN FrameArg ELSE FrameArg - 256)>>
    /\ errlog = <<>>

C5_Witness ==
  /\ rpc = "dispatched"
  /\ IsEncoderFrame
  /\ FrameTag = 50
  /\ FrameArg = 128
  /\ events = <<Event("encoder", "yellow", -128)>>

IsOtherFrame ==
  /\ line.kind = "frame"
  /\ Len(line.bytes) >= 1
  /\ FrameTag \notin {32, 33, 48, 49, 50, 51}

\* C6: a frame whose tag is none of 0x20, 0x21, 0x30..0x33 reaches no sink,
\* logs one error and returns normally.
C6_UnparsableDropped ==
  (rpc # "dispatch" /\ IsOtherFrame) =>
    /\ rpc = "dispatched"
    /\ events = <<>>
    /\ errlog = <<"Unparsable message">>

C6_Witness ==
  /\ rpc = "dispatched"
  /\ IsOtherFrame
  /\ FrameTag = 153
  /\ errlog = <<"Unparsable message">>
  /\ events = <<>>

\* C7: no read result terminates the reader thread, and the loop is left
\* only when the should-continue flag is false.
C7_ReaderNeverTerminates ==
  /\ rpc # "terminated"
  /\ rpc = "exited" => ~should_run

\* C8: no construction error propagates out of make_or_dummy.
C8_FactoryNeverThrows == ~escaped

\* C9: once flush_leds has returned and no append is in progress, the outer
\* slot is empty and every queued message has been handed to the device.
C9_FlushTransmits ==
  (lastCall = "flush_leds" /\ \A t \in BufThreads : pc[t] = "idle") =>
    /\ _store[OuterIdx] = <<>>
    /\ sent = Flatten(queued)

\* C10: a read that yields an error produces no event and sends the loop to
\* its next iteration; it adds no log entry for empty_buffer and exactly one
\* error entry for any other error.
C10_ReadErrors ==
  [][(rpc = "read_line" /\ nReads' = nReads + 1 /\ line'.kind \in ErrorCodes) =>
       /\ events' = events
       /\ rpc' = "while"
       /\ errlog' = IF line'.kind = "empty_buffer"
                      THEN errlog
                      ELSE Append(errlog, "Error reading FIFO data")]_vars

C10_Witness ==
  /\ nReads = 2
  /\ line.kind = "empty_buffer"
  /\ rpc = "while"
  /\ errlog = <<"Error reading FIFO data">>
  /\ events = <<>>

\* C11: once should_run is false at most one further read result is handled,
\* and after it the thread is back at the loop check or has left the loop.
C11_StopsAfterOneRead ==
  /\ stopReads <= 1
  /\ (~should_run /\ stopReads = 1) => rpc \in {"while", "exited"}

RECURSIVE EventsOf(_, _)
EventsOf(fs, midi) ==
  IF fs = <<>> THEN <<>>
  ELSE handle_message(Head(fs), midi).events \o EventsOf(Tail(fs), midi)

\* C12: the events the sinks have received are the events of the frames read
\* so far, frame by frame in the order the source delivered them.
C12_ArrivalOrder == events = EventsOf(frames, send_midi_)

C12_Witness ==
  /\ frames = <<<<key_down, 0>>, <<blue_enc_step, 255>>>>
  /\ ~send_midi_
  /\ events = <<Event("keypress", "S0", 0), Event("encoder", "blue", -1)>>

\* C17: every frame handed to handle_message has at least one byte.
C17_NeverEmptyFrame == line.kind = "frame" => Len(line.bytes) > 0

\* C14: under fair scheduling a producer that has called queue_message gets
\* the lock, appends and returns, and a held lock is always released again.
C14_QueueMessageReturns ==
  /\ \A t \in Producers : (pc[t] = "lock") ~> (pc[t] = "idle")
  /\ (_outer_lock # NoThread) ~> (_outer_lock = NoThread)

C14_Witness ==
  /\ \E t \in Producers : pc[t] = "lock" /\ _outer_lock \in Producers
  /\ \E s \in Swappers : pc[s] = "idle" /\ nSwaps >= 1

SwapInProgress == \E s \in BufThreads : pc[s] \in {"flip", "after", "return"}

\* the bytes the producer inside outer_locked has copied so far
PartialAppend ==
  IF \E t \in Producers : pc[t] = "copy"
    THEN LET t == CHOOSE u \in Producers : pc[u] = "copy"
         IN  SubSeq(msg[t], 1, pos[t])
    ELSE <<>>

\* C18: outside a swap the outer slot is the concatenation of the whole
\* messages appended since the last swap, in the order their callers held the
\* lock, followed only by the bytes the current lock holder has copied so far.
C18_NoInterleaving ==
  ~SwapInProgress => _store[OuterIdx] = Flatten(outerLog) \o PartialAppend

C18_Witness ==
  /\ Len(outerLog) = 1
  /\ \E t \in Producers :
        pc[t] = "copy" /\ pos[t] = 1 /\ Len(msg[t]) = 2 /\ msg[t] # outerLog[1]
  /\ _store[OuterIdx] = Flatten(outerLog) \o PartialAppend

\* C19: with clear_outer the inner slots read at the end of the swaps,
\* concatenated, are exactly the messages queued before those swaps, each
\* once: nothing is lost and nothing appears in a second swap.
C19_ExactlyOnce ==
  policy = "clear_outer" =>
    Flatten(queued) =
      delivered \o (IF SwapInProgress THEN Flatten(snapshot) ELSE <<>>)
                \o Flatten(outerLog)

C19_Witness ==
  /\ policy = "clear_outer"
  /\ nSwaps = 2
  /\ ~SwapInProgress
  /\ outerLog = <<>>
  /\ snapshot # <<>>
  /\ Len(delivered) > Len(Flatten(snapshot))
  /\ delivered = Flatten(queued)

\* threads using the outer slot through outer_locked's callback or through
\* the reference outer() returned
OuterAccessors ==
  {t \in Producers : pc[t] = "copy"} \cup
  (IF pc[OuterUser] = "access" THEN {OuterUser} ELSE {})

\* C13: whoever reads or writes the outer slot through outer() or
\* outer_locked() holds the lock meanwhile, so at most one thread is on the
\* outer slot and none while swap() runs.
C13_OuterUnderLock ==
  /\ \A t \in OuterAccessors : _outer_lock = t
  /\ Cardinality(OuterAccessors) <= 1
  /\ SwapInProgress => OuterAccessors = {}

\* the slot swap()'s policy call is about to clear
ClearedSlot ==
  IF policy = "clear_outer" THEN (_inner_idx + 1) % 2 ELSE _inner_idx % 2

\* thread t, not the owner, is writing slot k
Writing(t, k) ==
  \/ t \in Producers /\ pc[t] = "copy" /\ ref[t] = k
  \/ t \in Swappers /\ pc[t] = "after" /\ ClearedSlot = k

\* the owner uses its inner() reference while another thread writes that slot
OwnerOverlap ==
  /\ pc[Owner] = "access"
  /\ \E t \in Producers \cup Swappers : Writing(t, iref)

\* C15 as stated: with one caller of inner(), the owner's access never
\* overlaps a write of the same slot by another thread, whoever calls swap().
C15_OwnerNeverOverlapsWrite == ~OwnerOverlap

\* C15 amended: the owner's access never overlaps a write of the same slot by
\* another thread provided the owner is also the only caller of swap() and
\* holds no inner() reference across its own swap.
C15_OwnerSwapsNoOverlap == discipline = "single_owner" => ~OwnerOverlap

C15_Witness ==
  /\ discipline = "single_owner"
  /\ nSwaps = 1
  /\ pc[Owner] = "access"
  /\ iref = _inner_idx
  /\ \E t \in Producers : pc[t] = "copy" /\ pos[t] = 1

\* C16: when swap() has applied its policy the designation is exchanged and
\* exactly one slot is cleared: clear_outer empties the new outer and the new
\* inner holds the previous outer contents, clear_inner empties the new inner
\* and the new outer holds the previous inner contents; the inner index is
\* always 0 or 1 and the outer slot is the other one.
C16_SwapEffect ==
  /\ _inner_idx \in 0..1
  /\ OuterIdx = 1 - _inner_idx
  /\ \A t \in BufThreads : pc[t] = "return" =>
        /\ _inner_idx = 1 - pre.idx
        /\ policy = "clear_outer" =>
              _store[_inner_idx] = pre.outer /\ _store[OuterIdx] = <<>>
        /\ policy = "clear_inner" =>
              _store[_inner_idx] = <<>> /\ _store[OuterIdx] = pre.inner

C16_Witness ==
  /\ policy = "clear_inner"
  /\ \E t \in BufThreads : pc[t] = "return"
  /\ pre.inner # <<>>
  /\ pre.outer # <<>>
  /\ _store[OuterIdx] = pre.inner
  /\ _store[_inner_idx] = <<>>

\* C20: when the owner is the only caller of swap() and inner() and producers
\* use outer_locked only, a producer's callback runs on the slot that is outer
\* for as long as the callback runs, never on the slot the owner is using.
C20_ProducerOnOuter ==
  discipline = "single_owner" =>
    \A t \in Producers : pc[t] = "copy" =>
      /\ ref[t] = OuterIdx
      /\ pc[Owner] = "access" => iref # ref[t]

C20_Witness ==
  /\ discipline = "single_owner"
  /\ policy = "clear_outer"
  /\ nSwaps = 2
  /\ pc[Owner] = "access"
  /\ _store[iref] # <<>>
  /\ \E t \in Producers : pc[t] = "copy" /\ pos[t] = Len(msg[t]) /\ ref[t] # iref
====
